---- MODULE Spec2Model ----
(***************************************************************************)
(* Model of the calculation core of apppumps.py: calcular_perda_carga,     *)
(* calcular_analise_energetica, gerar_sugestoes, the FLUIDOS table and the *)
(* top-level script that calls them.                                       *)
(*                                                                         *)
(* Python floats are modelled as decimal floating-point numbers with Prec  *)
(* significant digits, rounded to nearest (ties to even) after every       *)
(* operation, as binary64 does with 53 bits.  The exponent is unbounded:   *)
(* the inputs of the model stay far away from the binary64 range limits.   *)
(***************************************************************************)
EXTENDS Integers, Sequences, FiniteSets, TLC

\* Significant decimal digits kept by every floating-point operation.
Prec == 3

----------------------------------------------------------------------------
\* Floating-point numbers: [m |-> mantissa, e |-> exponent], value m * 10^e,
\* with m = 0 /\ e = 0, or 10^(Prec-1) <= |m| < 10^Prec.

RECURSIVE Pow10(_)
Pow10(k) == IF k <= 0 THEN 1 ELSE 10 * Pow10(k - 1)

Abs(n) == IF n < 0 THEN 0 - n ELSE n

Zero == [m |-> 0, e |-> 0]

\* The float nearest to n/d * 10^e (n >= 0, d > 0), ties to even.
RECURSIVE RoundRat(_, _, _)
RoundRat(n, d, e) ==
    IF n = 0 THEN Zero
    ELSE IF n >= d * Pow10(Prec) THEN RoundRat(n, d * 10, e + 1)
    ELSE IF n < d * Pow10(Prec - 1) THEN RoundRat(n * 10, d, e - 1)
    ELSE LET q  == n \div d
             r  == n % d
             up == (2 * r > d) \/ (2 * r = d /\ q % 2 = 1)
             q1 == IF up THEN q + 1 ELSE q
         IN  IF q1 = Pow10(Prec) THEN [m |-> Pow10(Prec - 1), e |-> e + 1]
                                 ELSE [m |-> q1, e |-> e]

Neg(a) == [m |-> 0 - a.m, e |-> a.e]

Signed(neg, a) == IF neg THEN Neg(a) ELSE a

\* A decimal literal n * 10^e of the source, rounded to a float.
Lit(n, e) == Signed(n < 0, RoundRat(Abs(n), 1, e))

Mul(a, b) ==
    Signed((a.m < 0) # (b.m < 0), RoundRat(Abs(a.m) * Abs(b.m), 1, a.e + b.e))

\* a / b for b # 0 (a zero divisor is the caller's ZeroDivisionError).
Div(a, b) ==
    Signed((a.m < 0) # (b.m < 0), RoundRat(Abs(a.m), Abs(b.m), a.e - b.e))

Add(a, b) ==
    IF a.m = 0 THEN b
    ELSE IF b.m = 0 THEN a
    ELSE LET hi == IF a.e >= b.e THEN a ELSE b
             lo == IF a.e >= b.e THEN b ELSE a
             dl == hi.e - lo.e
             n  == hi.m * Pow10(dl) + lo.m
         IN  IF dl > Prec + 1 THEN hi
             ELSE Signed(n < 0, RoundRat(Abs(n), 1, lo.e))

Sub(a, b) == Add(a, Neg(b))

Lt(a, b) == Sub(a, b).m < 0

Gt(a, b) == Lt(b, a)

Le(a, b) == ~Lt(b, a)

IsZero(a) == a.m = 0

One == Lit(1, 0)

\* floor(a) as an integer.
Floor(a) ==
    IF a.e >= 0 THEN a.m * Pow10(a.e)
    ELSE IF a.m >= 0 THEN a.m \div Pow10(0 - a.e)
    ELSE 0 - ((Abs(a.m) + Pow10(0 - a.e) - 1) \div Pow10(0 - a.e))

\* 1/(2j+1) + z2 * (1/(2j+3) + z2 * ...): the series of atanh(z)/z.
RECURSIVE AtanhSeries(_, _)
AtanhSeries(z2, j) ==
    IF j >= 8 THEN Div(One, Lit(2 * j + 1, 0))
    ELSE Add(Div(One, Lit(2 * j + 1, 0)), Mul(z2, AtanhSeries(z2, j + 1)))

\* math.log10(x) for x > 0 (the caller raises ValueError otherwise):
\* x = f * 10^k with f in [10^-0.5, 10^0.5), log10(x) = k + 2*atanh((f-1)/(f+1))/ln(10).
\* Exactly zero for x = 1 and for no other float.
Log10(x) ==
    LET big == Gt([m |-> x.m, e |-> 1 - Prec], Lit(316227766, -8))
        f   == [m |-> x.m, e |-> IF big THEN 0 - Prec ELSE 1 - Prec]
        k   == IF big THEN x.e + Prec ELSE x.e + Prec - 1
        z   == Div(Sub(f, One), Add(f, One))
        s   == Mul(z, AtanhSeries(Mul(z, z), 0))
    IN  Add(Lit(k, 0), Mul(s, Lit(868588964, -9)))

\* 1 + t/j * (1 + t/(j+1) * ...): the series of exp(t).
RECURSIVE ExpSeries(_, _)
ExpSeries(t, j) ==
    IF j > 12 THEN One
    ELSE Add(One, Mul(Div(t, Lit(j, 0)), ExpSeries(t, j + 1)))

\* 10^y: y = n + r with n the nearest integer, 10^y = exp(r * ln(10)) * 10^n.
Exp10(y) ==
    LET n == Floor(Add(y, Lit(5, -1)))
        p == ExpSeries(Mul(Sub(y, Lit(n, 0)), Lit(230258509, -8)), 1)
    IN  [m |-> p.m, e |-> p.e + n]

\* x ** y for x > 0 (float.__pow__), accurate to a few units in the last place.
Pow(x, y) == Exp10(Mul(y, Log10(x)))

----------------------------------------------------------------------------
\* The program state.
VARIABLES
    FLUIDOS,   \* the module-level fluid table: key -> [rho, nu]
    frames,    \* the invocations in progress or finished, one frame each
    app        \* the top-level script: its position, variables and call log

vars == <<FLUIDOS, frames, app>>

\* FLUIDOS as the module defines it.
TabelaFluidos ==
    ("Agua a 20C" :> [rho |-> Lit(9982, -1), nu |-> Lit(1004, -9)])
    @@ ("Etanol a 20C" :> [rho |-> Lit(7890, -1), nu |-> Lit(151, -8)])
    @@ ("Glicerina a 20C" :> [rho |-> Lit(12610, -1), nu |-> Lit(149, -5)])
    @@ ("Oleo Leve (generico)" :> [rho |-> Lit(8800, -1), nu |-> Lit(15, -6)])

\* math.pi
Pi == Lit(314159265, -8)

\* A frame: the function called, its arguments, the statement to run next,
\* the locals bound so far, and how the call ended.
NewFrame(fn, args, pc) ==
    [fn |-> fn, args |-> args, pc |-> pc, locals |-> <<>>,
     outcome |-> "running", ret |-> <<>>]

\* name = value: binds locals, and moves on to the statement pc.
Bind(f, bound, pc) == [f EXCEPT !.locals = bound @@ @, !.pc = pc]

\* An exception leaves the function; nothing is returned.
Raise(f, exc) == [f EXCEPT !.pc = "done", !.outcome = exc]

Return(f, v) == [f EXCEPT !.pc = "done", !.outcome = "returned", !.ret = v]

\* Variant of FluidosAfterLookup: the lookup removes the entry (a dict.pop).
FluidosAfterPop(fl, key) == [k \in DOMAIN fl \ {key} |-> fl[k]]

\* FLUIDOS[key]: a subscript reads the dict and leaves it as it is.
FluidosAfterLookup(fl, key) == fl

----------------------------------------------------------------------------
\* calcular_perda_carga(vazao_m3h, diametro_mm, comprimento_m, rugosidade_mm,
\*                      k_total, fluido_selecionado), statement by statement.

\* lines 22-24: the unit conversions.
PC_Conv(f) ==
    Bind(f, [vazao_m3s    |-> Div(f.args.vazao_m3h, Lit(3600, 0)),
             diametro_m   |-> Div(f.args.diametro_mm, Lit(1000, 0)),
             rugosidade_m |-> Div(f.args.rugosidade_mm, Lit(1000, 0))], "lookup")

\* Variant of PC_Lookup: a missing key falls back to water (a dict.get default).
PC_LookupPadrao(f, fl) ==
    LET key == IF f.args.fluido_selecionado \in DOMAIN fl
               THEN f.args.fluido_selecionado ELSE "Agua a 20C"
    IN  Bind(f, [rho |-> fl[key].rho, nu |-> fl[key].nu], "area")

\* lines 27-28: rho and nu of the fluid; KeyError for a key not in the table.
PC_Lookup(f, fl) ==
    IF f.args.fluido_selecionado \notin DOMAIN fl THEN Raise(f, "KeyError")
    ELSE Bind(f, [rho |-> fl[f.args.fluido_selecionado].rho,
                  nu  |-> fl[f.args.fluido_selecionado].nu], "area")

\* Variant of PC_Area: the zero-area early return is missing.
PC_AreaSemRetorno(f) ==
    LET d == f.locals.diametro_m
    IN  Bind(f, [area |-> Div(Mul(Pi, Mul(d, d)), Lit(4, 0))], "velocidade")

\* lines 31-32: the cross-section; a zero area returns (0, 0).
PC_Area(f) ==
    LET d    == f.locals.diametro_m
        area == Div(Mul(Pi, Mul(d, d)), Lit(4, 0))
    IN  IF IsZero(area) THEN Return(Bind(f, [area |-> area], "done"), <<Zero, Zero>>)
        ELSE Bind(f, [area |-> area], "velocidade")

\* line 33
PC_Velocidade(f) ==
    IF IsZero(f.locals.area) THEN Raise(f, "ZeroDivisionError")
    ELSE Bind(f, [velocidade |-> Div(f.locals.vazao_m3s, f.locals.area)], "reynolds")

\* line 36
PC_Reynolds(f) ==
    Bind(f, [reynolds |-> IF Gt(f.locals.nu, Zero)
                          THEN Div(Mul(f.locals.velocidade, f.locals.diametro_m),
                                   f.locals.nu)
                          ELSE Zero], "fator")

\* line 41: 0.25 / (math.log10((rugosidade_m / (3.7 * diametro_m))
\*                             + (5.74 / reynolds**0.9)))**2
\* evaluated in Python's order, each division and the logarithm raising as
\* Python does.
FatorTurbulento(f) ==
    LET den == Mul(Lit(37, -1), f.locals.diametro_m)
        pw  == Pow(f.locals.reynolds, Lit(9, -1))
        arg == Add(Div(f.locals.rugosidade_m, den), Div(Lit(574, -2), pw))
        lg  == Log10(arg)
        sq  == Mul(lg, lg)
    IN  IF IsZero(den) \/ IsZero(pw) THEN Raise(f, "ZeroDivisionError")
        ELSE IF ~Gt(arg, Zero) THEN Raise(f, "ValueError")
        ELSE IF IsZero(sq) THEN Raise(f, "ZeroDivisionError")
        ELSE Bind(f, [fator_atrito |-> Div(Lit(25, -2), sq)], "perdas")

\* line 43
FatorLaminar(f) ==
    Bind(f, [fator_atrito |-> IF Gt(f.locals.reynolds, Zero)
                              THEN Div(Lit(64, 0), f.locals.reynolds)
                              ELSE Zero], "perdas")

\* lines 40-43
PC_Fator(f) ==
    IF Gt(f.locals.reynolds, Lit(4000, 0)) THEN FatorTurbulento(f)
    ELSE FatorLaminar(f)

\* lines 46-49
PC_Perdas(f) ==
    LET cin == Div(Mul(f.locals.velocidade, f.locals.velocidade),
                   Mul(Lit(2, 0), Lit(981, -2)))
    IN  IF IsZero(f.locals.diametro_m) THEN Raise(f, "ZeroDivisionError")
        ELSE Bind(f, [perda_carga_principal |->
                          Mul(Mul(f.locals.fator_atrito,
                                  Div(f.args.comprimento_m, f.locals.diametro_m)), cin),
                      perda_carga_localizada |-> Mul(f.args.k_total, cin)], "return")

\* line 51
PC_Return(f) ==
    Return(f, <<f.locals.perda_carga_principal, f.locals.perda_carga_localizada>>)

----------------------------------------------------------------------------
\* calcular_analise_energetica(vazao_m3h, h_man, eficiencia_bomba,
\*     eficiencia_motor, horas_dia, custo_kwh, fluido_selecionado).

\* line 55: rho of the fluid; KeyError for a key not in the table.
AE_Lookup(f, fl) ==
    IF f.args.fluido_selecionado \notin DOMAIN fl THEN Raise(f, "KeyError")
    ELSE Bind(f, [rho |-> fl[f.args.fluido_selecionado].rho], "conv")

\* lines 56-57
AE_Conv(f) ==
    Bind(f, [g |-> Lit(981, -2),
             vazao_m3s |-> Div(f.args.vazao_m3h, Lit(3600, 0))], "potencias")

\* Variant of PorEficiencia: multiplies by the efficiency.
PorEficienciaVezes(x, eficiencia) ==
    IF Gt(eficiencia, Zero) THEN Mul(x, eficiencia) ELSE Zero

\* Variant of PorEficiencia: a zero efficiency passes the power through.
PorEficienciaSemPerda(x, eficiencia) ==
    IF Gt(eficiencia, Zero) THEN Div(x, eficiencia) ELSE x

\* line 60 and line 61: x / eficiencia if eficiencia > 0 else 0
PorEficiencia(x, eficiencia) ==
    IF Gt(eficiencia, Zero) THEN Div(x, eficiencia) ELSE Zero

\* lines 59-63
AE_Potencias(f) ==
    LET hid  == Mul(Mul(Mul(f.locals.vazao_m3s, f.locals.rho), f.locals.g),
                    f.args.h_man)
        eixo == PorEficiencia(hid, f.args.eficiencia_bomba)
        ele  == PorEficiencia(eixo, f.args.eficiencia_motor)
    IN  Bind(f, [potencia_hidraulica_W |-> hid,
                 potencia_eixo_W       |-> eixo,
                 potencia_eletrica_W   |-> ele,
                 potencia_eletrica_kW  |-> Div(ele, Lit(1000, 0))], "consumo")

\* Variant of ConsumoDiario: the hours are clamped to 24.
ConsumoDiarioLimitado(kW, horas_dia) ==
    Mul(kW, IF Gt(horas_dia, Lit(24, 0)) THEN Lit(24, 0) ELSE horas_dia)

\* Variant of ConsumoDiario: bills the idle hours, 24 - horas_dia.
ConsumoDiarioOcioso(kW, horas_dia) == Mul(kW, Sub(Lit(24, 0), horas_dia))

\* line 65: potencia_eletrica_kW * horas_dia
ConsumoDiario(kW, horas_dia) == Mul(kW, horas_dia)

\* lines 65-66
AE_Consumo(f) ==
    LET dia == ConsumoDiario(f.locals.potencia_eletrica_kW, f.args.horas_dia)
    IN  Bind(f, [consumo_diario_kWh |-> dia,
                 consumo_mensal_kWh |-> Mul(dia, Lit(30, 0))], "custo")

\* lines 68-69
AE_Custo(f) ==
    LET mes == Mul(f.locals.consumo_mensal_kWh, f.args.custo_kwh)
    IN  Bind(f, [custo_mensal |-> mes, custo_anual |-> Mul(mes, Lit(12, 0))],
             "return")

\* lines 71-78
AE_Return(f) ==
    Return(f, [potencia_hidraulica_kW |-> Div(f.locals.potencia_hidraulica_W, Lit(1000, 0)),
               potencia_eixo_kW       |-> Div(f.locals.potencia_eixo_W, Lit(1000, 0)),
               potencia_eletrica_kW   |-> f.locals.potencia_eletrica_kW,
               consumo_mensal_kWh     |-> f.locals.consumo_mensal_kWh,
               custo_mensal           |-> f.locals.custo_mensal,
               custo_anual            |-> f.locals.custo_anual])

----------------------------------------------------------------------------
\* gerar_sugestoes(eficiencia_bomba, eficiencia_motor, custo_anual).
\* The four advisory strings, abbreviated.
SugBomba == "Eficiencia da bomba abaixo de 60%"

SugMotor == "Eficiencia do motor abaixo de 85%"

SugInversor == "Inversor de frequencia"

SugManutencao == "Manutencoes preventivas"

\* line 82
GS_Init(f) == Bind(f, [sugestoes |-> <<>>], "bomba")

\* sugestoes.append(texto) when cond holds
AppendIf(f, cond, texto, pc) ==
    Bind(f, [sugestoes |-> IF cond THEN Append(f.locals.sugestoes, texto)
                           ELSE f.locals.sugestoes], pc)

\* lines 83-84
GS_Bomba(f) ==
    AppendIf(f, Lt(f.args.eficiencia_bomba, Lit(6, -1)), SugBomba, "motor")

\* Variant of GS_Motor: the threshold is inclusive.
GS_MotorInclusivo(f) ==
    AppendIf(f, Le(f.args.eficiencia_motor, Lit(85, -2)), SugMotor, "custo")

\* lines 85-86
GS_Motor(f) ==
    AppendIf(f, Lt(f.args.eficiencia_motor, Lit(85, -2)), SugMotor, "custo")

\* lines 87-88
GS_Custo(f) ==
    AppendIf(f, Gt(f.args.custo_anual, Lit(5000, 0)), SugInversor, "manutencao")

\* line 89
GS_Manutencao(f) == AppendIf(f, TRUE, SugManutencao, "return")

\* line 90
GS_Return(f) == Return(f, f.locals.sugestoes)

----------------------------------------------------------------------------
\* A whole call run alone against the table fl, from its first statement.

PerdaCargaFrame(args) == NewFrame("calcular_perda_carga", args, "conv")

AnaliseFrame(args) == NewFrame("calcular_analise_energetica", args, "lookup")

SugestoesFrame(args) == NewFrame("gerar_sugestoes", args, "init")

Done(f) == f.pc = "done"

Then(f, g) == IF Done(f) THEN f ELSE g

calcular_perda_carga(args, fl) ==
    LET f1 == PC_Conv(PerdaCargaFrame(args))
        f2 == PC_Lookup(f1, fl)
        f3 == Then(f2, PC_Area(f2))
        f4 == Then(f3, PC_Velocidade(f3))
        f5 == Then(f4, PC_Reynolds(f4))
        f6 == Then(f5, PC_Fator(f5))
        f7 == Then(f6, PC_Perdas(f6))
    IN  Then(f7, PC_Return(f7))

calcular_analise_energetica(args, fl) ==
    LET f1 == AE_Lookup(AnaliseFrame(args), fl)
        f2 == Then(f1, AE_Conv(f1))
        f3 == Then(f2, AE_Potencias(f2))
        f4 == Then(f3, AE_Consumo(f3))
        f5 == Then(f4, AE_Custo(f4))
    IN  Then(f5, AE_Return(f5))

gerar_sugestoes(args) ==
    GS_Return(GS_Manutencao(GS_Custo(GS_Motor(GS_Bomba(GS_Init(SugestoesFrame(args)))))))

----------------------------------------------------------------------------
\* The actions: invocation t runs its next statement.

AppIdle == [pc |-> "idle"]

At(t, fn, pc) == frames[t].fn = fn /\ frames[t].pc = pc

Exec(t, f2) ==
    /\ frames' = [frames EXCEPT ![t] = f2]
    /\ UNCHANGED <<FLUIDOS, app>>

\* A statement that subscripts FLUIDOS.
ExecLookup(t, f2) ==
    /\ frames' = [frames EXCEPT ![t] = f2]
    /\ FLUIDOS' = FluidosAfterLookup(FLUIDOS, frames[t].args.fluido_selecionado)
    /\ UNCHANGED app

PCConv ==
    \E t \in DOMAIN frames :
        At(t, "calcular_perda_carga", "conv") /\ Exec(t, PC_Conv(frames[t]))

PCLookup ==
    \E t \in DOMAIN frames :
        At(t, "calcular_perda_carga", "lookup") /\ ExecLookup(t, PC_Lookup(frames[t], FLUIDOS))

PCArea ==
    \E t \in DOMAIN frames :
        At(t, "calcular_perda_carga", "area") /\ Exec(t, PC_Area(frames[t]))

PCVelocidade ==
    \E t \in DOMAIN frames :
        At(t, "calcular_perda_carga", "velocidade") /\ Exec(t, PC_Velocidade(frames[t]))

PCReynolds ==
    \E t \in DOMAIN frames :
        At(t, "calcular_perda_carga", "reynolds") /\ Exec(t, PC_Reynolds(frames[t]))

PCFator ==
    \E t \in DOMAIN frames :
        At(t, "calcular_perda_carga", "fator") /\ Exec(t, PC_Fator(frames[t]))

PCPerdas ==
    \E t \in DOMAIN frames :
        At(t, "calcular_perda_carga", "perdas") /\ Exec(t, PC_Perdas(frames[t]))

PCReturn ==
    \E t \in DOMAIN frames :
        At(t, "calcular_perda_carga", "return") /\ Exec(t, PC_Return(frames[t]))

AELookup ==
    \E t \in DOMAIN frames :
        At(t, "calcular_analise_energetica", "lookup") /\ ExecLookup(t, AE_Lookup(frames[t], FLUIDOS))

AEConv ==
    \E t \in DOMAIN frames :
        At(t, "calcular_analise_energetica", "conv") /\ Exec(t, AE_Conv(frames[t]))

AEPotencias ==
    \E t \in DOMAIN frames :
        At(t, "calcular_analise_energetica", "potencias") /\ Exec(t, AE_Potencias(frames[t]))

AEConsumo ==
    \E t \in DOMAIN frames :
        At(t, "calcular_analise_energetica", "consumo") /\ Exec(t, AE_Consumo(frames[t]))

AECusto ==
    \E t \in DOMAIN frames :
        At(t, "calcular_analise_energetica", "custo") /\ Exec(t, AE_Custo(frames[t]))

AEReturn ==
    \E t \in DOMAIN frames :
        At(t, "calcular_analise_energetica", "return") /\ Exec(t, AE_Return(frames[t]))

GSInit ==
    \E t \in DOMAIN frames :
        At(t, "gerar_sugestoes", "init") /\ Exec(t, GS_Init(frames[t]))

GSBomba ==
    \E t \in DOMAIN frames :
        At(t, "gerar_sugestoes", "bomba") /\ Exec(t, GS_Bomba(frames[t]))

GSMotor ==
    \E t \in DOMAIN frames :
        At(t, "gerar_sugestoes", "motor") /\ Exec(t, GS_Motor(frames[t]))

GSCusto ==
    \E t \in DOMAIN frames :
        At(t, "gerar_sugestoes", "custo") /\ Exec(t, GS_Custo(frames[t]))

GSManutencao ==
    \E t \in DOMAIN frames :
        At(t, "gerar_sugestoes", "manutencao") /\ Exec(t, GS_Manutencao(frames[t]))

GSReturn ==
    \E t \in DOMAIN frames :
        At(t, "gerar_sugestoes", "return") /\ Exec(t, GS_Return(frames[t]))

PCStep ==
    \/ PCConv \/ PCLookup \/ PCArea \/ PCVelocidade
    \/ PCReynolds \/ PCFator \/ PCPerdas \/ PCReturn

AEStep ==
    \/ AELookup \/ AEConv \/ AEPotencias
    \/ AEConsumo \/ AECusto \/ AEReturn

GSStep ==
    \/ GSInit \/ GSBomba \/ GSMotor
    \/ GSCusto \/ GSManutencao \/ GSReturn

----------------------------------------------------------------------------
\* SpecCall: one call of one of the three functions, run alone.  The
\* arguments lie inside and outside the documented ranges, at and around the
\* thresholds, and name fluids in and not in the table.

PCArgs ==
    [vazao_m3h     : {Lit(-50, 0), Zero, Lit(50, 0)},
     diametro_mm   : {Lit(-100, 0), Zero, Lit(100, 0)},
     comprimento_m : {Lit(-100, 0), Lit(100, 0)},
     rugosidade_mm : {Lit(-15, -2), Zero, Lit(15, -2), Lit(370, 0)},
     k_total       : {Zero, Lit(5, 0)},
     fluido_selecionado : {"Agua a 20C", "Glicerina a 20C", "Desconhecido"}]

AEArgs ==
    [vazao_m3h        : {Lit(-50, 0), Zero, Lit(50, 0)},
     h_man            : {Zero, Lit(30, 0)},
     eficiencia_bomba : {Lit(-5, -1), Zero, Lit(7, -1), One, Lit(15, -1)},
     eficiencia_motor : {Zero, Lit(9, -1), One, Lit(12, -1)},
     horas_dia        : {Lit(-1, 0), Lit(8, 0), Lit(24, 0), Lit(48, 0)},
     custo_kwh        : {Lit(75, -2)},
     fluido_selecionado : {"Agua a 20C", "Desconhecido"}]

GSArgs ==
    [eficiencia_bomba : {Lit(5, -1), Lit(59, -2), Lit(6, -1), Lit(7, -1)},
     eficiencia_motor : {Lit(7, -1), Lit(84, -2), Lit(85, -2), Lit(9, -1)},
     custo_anual      : {Zero, Lit(4990, 0), Lit(5000, 0), Lit(5010, 0), Lit(6000, 0)}]

InitCall ==
    /\ FLUIDOS = TabelaFluidos
    /\ \/ \E a \in PCArgs : frames = <<PerdaCargaFrame(a)>>
       \/ \E a \in AEArgs : frames = <<AnaliseFrame(a)>>
       \/ \E a \in GSArgs : frames = <<SugestoesFrame(a)>>
    /\ app = AppIdle

NextCall == PCStep \/ AEStep \/ GSStep

SpecCall == InitCall /\ [][NextCall]_vars

\* The finished calls of function fn.
Finished(fn) == {t \in DOMAIN frames : frames[t].fn = fn /\ Done(frames[t])}

Returned(f) == f.outcome = "returned"

InTable(f) == f.args.fluido_selecionado \in DOMAIN TabelaFluidos

----------------------------------------------------------------------------
\* Claims about one call (SpecCall).

\* What gerar_sugestoes is to return for arguments a.
SugestoesEsperadas(a) ==
    (IF Lt(a.eficiencia_bomba, Lit(60, -2)) THEN <<SugBomba>> ELSE <<>>)
    \o (IF Lt(a.eficiencia_motor, Lit(85, -2)) THEN <<SugMotor>> ELSE <<>>)
    \o (IF Gt(a.custo_anual, Lit(5000, 0)) THEN <<SugInversor>> ELSE <<>>)
    \o <<SugManutencao>>

ArgsQuatro ==
    [eficiencia_bomba |-> Lit(5, -1), eficiencia_motor |-> Lit(7, -1),
     custo_anual |-> Lit(6000, 0)]

\* C1: gerar_sugestoes returns, in this order, the pump advice iff
\* eficiencia_bomba < 0.60, the motor advice iff eficiencia_motor < 0.85, the
\* inverter advice iff custo_anual > 5000, and always the maintenance
\* reminder last; the list has 1 to 4 entries, and all four for
\* (0.5, 0.7, 6000).
C1_Sugestoes ==
    \A t \in Finished("gerar_sugestoes") :
        LET f == frames[t]
        IN  /\ Returned(f)
            /\ f.ret = SugestoesEsperadas(f.args)
            /\ Len(f.ret) \in 1..4
            /\ f.ret[Len(f.ret)] = SugManutencao
            /\ f.args = ArgsQuatro =>
                   f.ret = <<SugBomba, SugMotor, SugInversor, SugManutencao>>

\* C1 witness: the call (0.5, 0.7, 6000) has returned its four entries.
C1_Witness ==
    \E t \in Finished("gerar_sugestoes") :
        frames[t].args = ArgsQuatro /\ Len(frames[t].ret) = 4

Calculos == {"calcular_perda_carga", "calcular_analise_energetica"}

Entre(x, lo, hi) == Le(lo, x) /\ Le(x, hi)

\* Negative or out-of-range inputs: negative length, diameter or flow, an
\* efficiency outside [0,1], hours outside [0,24].
EntradaInvalida(f) ==
    IF f.fn = "calcular_perda_carga"
    THEN \/ Lt(f.args.vazao_m3h, Zero)
         \/ Lt(f.args.diametro_mm, Zero)
         \/ Lt(f.args.comprimento_m, Zero)
    ELSE \/ Lt(f.args.vazao_m3h, Zero)
         \/ ~Entre(f.args.eficiencia_bomba, Zero, One)
         \/ ~Entre(f.args.eficiencia_motor, Zero, One)
         \/ ~Entre(f.args.horas_dia, Zero, Lit(24, 0))

\* C2 as stated, for the fluids of the table (where no unknown-fluid error
\* can take the place of the rejection): every finished call of
\* calcular_perda_carga or calcular_analise_energetica on negative or
\* out-of-range inputs has ended in InvalidInputError and returned nothing.
C2_Original ==
    \A t \in DOMAIN frames :
        LET f == frames[t]
        IN  (f.fn \in Calculos /\ Done(f) /\ EntradaInvalida(f) /\ InTable(f))
                => f.outcome = "InvalidInputError" /\ ~Returned(f)

\* v^2 / (2 * 9.81)
CargaCinetica(v) == Div(Mul(v, v), Mul(Lit(2, 0), Lit(981, -2)))

\* C2 as amended: neither function validates its inputs.  A call on negative
\* or out-of-range inputs with a fluid of the table never ends in
\* InvalidInputError: calcular_analise_energetica returns a result computed
\* from the inputs as given, unclamped (hydraulic power from the given flow
\* and head, monthly energy = electrical kW * the given hours * 30);
\* calcular_perda_carga returns the losses computed from the inputs as given,
\* or ends in ZeroDivisionError or ValueError raised by the arithmetic.
C2_SemValidacao ==
    \A t \in DOMAIN frames :
        LET f == frames[t]
            a == f.args
        IN  (f.fn \in Calculos /\ Done(f) /\ EntradaInvalida(f) /\ InTable(f)) =>
              IF f.fn = "calcular_analise_energetica"
              THEN /\ Returned(f)
                   /\ f.ret.potencia_hidraulica_kW =
                        Div(Mul(Mul(Mul(Div(a.vazao_m3h, Lit(3600, 0)),
                                        TabelaFluidos[a.fluido_selecionado].rho),
                                    Lit(981, -2)), a.h_man), Lit(1000, 0))
                   /\ f.ret.consumo_mensal_kWh =
                        Mul(Mul(f.ret.potencia_eletrica_kW, a.horas_dia), Lit(30, 0))
              ELSE /\ f.outcome \in {"returned", "ZeroDivisionError", "ValueError"}
                   /\ (Returned(f) /\ "velocidade" \in DOMAIN f.locals) =>
                        f.ret = <<Mul(Mul(f.locals.fator_atrito,
                                          Div(a.comprimento_m,
                                              Div(a.diametro_mm, Lit(1000, 0)))),
                                      CargaCinetica(f.locals.velocidade)),
                                  Mul(a.k_total, CargaCinetica(f.locals.velocidade))>>

\* C2 witness: a call of calcular_analise_energetica with a negative flow and
\* 48 hours a day has returned a negative hydraulic power and a monthly
\* energy that is not zero.
C2_Witness ==
    \E t \in Finished("calcular_analise_energetica") :
        LET f == frames[t]
        IN  /\ Returned(f)
            /\ Lt(f.args.vazao_m3h, Zero)
            /\ f.args.horas_dia = Lit(48, 0)
            /\ Lt(f.ret.potencia_hidraulica_kW, Zero)
            /\ ~IsZero(f.ret.consumo_mensal_kWh)

\* C3 as stated: a call with a fluid key that is not in the table ends in
\* KeyError (the unknown-fluid error) before any computation step of the call:
\* no local has been computed, nothing is returned.
C3_Original ==
    \A t \in DOMAIN frames :
        LET f == frames[t]
        IN  (f.fn \in Calculos /\ Done(f) /\ ~InTable(f)) =>
                f.outcome = "KeyError" /\ DOMAIN f.locals = {}

Conversoes == {"vazao_m3s", "diametro_m", "rugosidade_m"}

\* C3 as amended: a call with a fluid key that is not in the table ends in
\* KeyError, returns nothing, and never computes an area, a velocity, a
\* Reynolds number, a friction factor, a loss or a power;
\* calcular_analise_energetica fails before any computation step, while
\* calcular_perda_carga has computed its three unit conversions (and nothing
\* else) when the lookup fails.
C3_ChaveDesconhecida ==
    \A t \in DOMAIN frames :
        LET f == frames[t]
        IN  (f.fn \in Calculos /\ ~InTable(f)) =>
              /\ ~Returned(f)
              /\ DOMAIN f.locals \subseteq
                   (IF f.fn = "calcular_perda_carga" THEN Conversoes ELSE {})
              /\ Done(f) =>
                   /\ f.outcome = "KeyError"
                   /\ f.fn = "calcular_perda_carga" => DOMAIN f.locals = Conversoes

\* C3 witness: calcular_perda_carga has ended in KeyError with its unit
\* conversions computed.
C3_Witness ==
    \E t \in DOMAIN frames :
        /\ frames[t].fn = "calcular_perda_carga"
        /\ frames[t].outcome = "KeyError"
        /\ DOMAIN frames[t].locals = Conversoes

PotenciasOrdenadas(r) ==
    /\ Le(Zero, r.potencia_hidraulica_kW)
    /\ Le(r.potencia_hidraulica_kW, r.potencia_eixo_kW)
    /\ Le(r.potencia_eixo_kW, r.potencia_eletrica_kW)

\* C4 as stated: with flow >= 0, head >= 0 and both efficiencies <= 1 the
\* returned powers satisfy 0 <= hydraulic <= shaft <= electrical.
C4_Original ==
    \A t \in Finished("calcular_analise_energetica") :
        LET f == frames[t]
        IN  ( /\ Returned(f)
              /\ Le(Zero, f.args.vazao_m3h) /\ Le(Zero, f.args.h_man)
              /\ Le(f.args.eficiencia_bomba, One)
              /\ Le(f.args.eficiencia_motor, One) ) => PotenciasOrdenadas(f.ret)

\* C4 as amended: with flow >= 0, head >= 0 and both efficiencies in (0, 1]
\* the returned powers satisfy 0 <= hydraulic <= shaft <= electrical.
C4_Potencias ==
    \A t \in Finished("calcular_analise_energetica") :
        LET f == frames[t]
        IN  ( /\ Returned(f)
              /\ Le(Zero, f.args.vazao_m3h) /\ Le(Zero, f.args.h_man)
              /\ Gt(f.args.eficiencia_bomba, Zero) /\ Le(f.args.eficiencia_bomba, One)
              /\ Gt(f.args.eficiencia_motor, Zero) /\ Le(f.args.eficiencia_motor, One) )
            => PotenciasOrdenadas(f.ret)

\* C4 witness: a call with efficiencies 0.7 and 0.9 has returned powers that
\* strictly increase from hydraulic to shaft to electrical.
C4_Witness ==
    \E t \in Finished("calcular_analise_energetica") :
        LET f == frames[t]
        IN  /\ Returned(f)
            /\ f.args.eficiencia_bomba = Lit(7, -1)
            /\ f.args.eficiencia_motor = Lit(9, -1)
            /\ Lt(Zero, f.ret.potencia_hidraulica_kW)
            /\ Lt(f.ret.potencia_hidraulica_kW, f.ret.potencia_eixo_kW)
            /\ Lt(f.ret.potencia_eixo_kW, f.ret.potencia_eletrica_kW)

\* C5: a call of calcular_analise_energetica with a fluid of the table and a
\* pump or motor efficiency of 0 returns (no error) a result whose electrical
\* power, monthly energy, monthly cost and annual cost are 0.
C5_EficienciaZero ==
    \A t \in Finished("calcular_analise_energetica") :
        LET f == frames[t]
        IN  ( /\ InTable(f)
              /\ IsZero(f.args.eficiencia_bomba) \/ IsZero(f.args.eficiencia_motor) )
            => /\ Returned(f)
               /\ IsZero(f.ret.potencia_eletrica_kW)
               /\ IsZero(f.ret.consumo_mensal_kWh)
               /\ IsZero(f.ret.custo_mensal)
               /\ IsZero(f.ret.custo_anual)

\* C5 witness: a call with pump efficiency 0 and a hydraulic power that is
\* not 0 has returned.
C5_Witness ==
    \E t \in Finished("calcular_analise_energetica") :
        /\ Returned(frames[t])
        /\ IsZero(frames[t].args.eficiencia_bomba)
        /\ ~IsZero(frames[t].args.eficiencia_motor)
        /\ ~IsZero(frames[t].ret.potencia_hidraulica_kW)

\* C6: a call of calcular_perda_carga with diameter 0 and a fluid of the
\* table returns (0, 0) whatever the other arguments, raises nothing, and
\* skips the velocity, Reynolds, friction-factor and head-loss steps (every
\* division by the area or the diameter).
C6_DiametroZero ==
    \A t \in DOMAIN frames :
        LET f == frames[t]
        IN  ( /\ f.fn = "calcular_perda_carga"
              /\ IsZero(f.args.diametro_mm) /\ InTable(f) ) =>
              /\ f.outcome \in {"running", "returned"}
              /\ DOMAIN f.locals \subseteq Conversoes \cup {"rho", "nu", "area"}
              /\ Done(f) => f.ret = <<Zero, Zero>>

\* C6 witness: a call with diameter 0 and a flow that is not 0 has returned.
C6_Witness ==
    \E t \in Finished("calcular_perda_carga") :
        /\ IsZero(frames[t].args.diametro_mm)
        /\ ~IsZero(frames[t].args.vazao_m3h)
        /\ Returned(frames[t])

\* C8: with a fluid of the table and flow > 0, diameter > 0, length > 0,
\* roughness >= 0 and K >= 0, calcular_perda_carga returns a pair and never
\* ends in an error.
C8_Original ==
    \A t \in Finished("calcular_perda_carga") :
        LET f == frames[t]
        IN  ( /\ InTable(f)
              /\ Gt(f.args.vazao_m3h, Zero) /\ Gt(f.args.diametro_mm, Zero)
              /\ Gt(f.args.comprimento_m, Zero)
              /\ Le(Zero, f.args.rugosidade_mm) /\ Le(Zero, f.args.k_total) )
            => Returned(f)

----------------------------------------------------------------------------
\* SpecMono: calcular_analise_energetica called twice in a row, the second
\* time with one of flow, head, hours per day and tariff larger and every
\* other argument the same; all arguments in their documented ranges.

MonoArgs ==
    [vazao_m3h        : {Zero, Lit(50, 0), Lit(100, 0)},
     h_man            : {Zero, Lit(30, 0), Lit(60, 0)},
     eficiencia_bomba : {Zero, Lit(7, -1)},
     eficiencia_motor : {Lit(9, -1), One},
     horas_dia        : {Zero, Lit(8, 0), Lit(24, 0)},
     custo_kwh        : {Zero, Lit(75, -2)},
     fluido_selecionado : {"Agua a 20C"}]

Crescentes == {"vazao_m3h", "h_man", "horas_dia", "custo_kwh"}

\* b is a with the argument c larger and nothing else changed.
MaiorEm(c, a, b) ==
    /\ Lt(a[c], b[c])
    /\ \A k \in DOMAIN a : k # c => a[k] = b[k]

InitMono ==
    /\ FLUIDOS = TabelaFluidos
    /\ \E a \in MonoArgs, b \in MonoArgs :
          /\ \E c \in Crescentes : MaiorEm(c, a, b)
          /\ frames = <<AnaliseFrame(a)>>
          /\ app = [pc |-> "primeira", segunda |-> b]

\* The first call has returned: the second call begins.
SegundaChamada ==
    /\ app.pc = "primeira"
    /\ Len(frames) = 1 /\ Done(frames[1])
    /\ frames' = Append(frames, AnaliseFrame(app.segunda))
    /\ app' = [app EXCEPT !.pc = "segunda"]
    /\ UNCHANGED FLUIDOS

NextMono == AEStep \/ SegundaChamada

SpecMono == InitMono /\ [][NextMono]_vars

\* C7: the annual cost is non-decreasing in each of flow, head, hours per
\* day and tariff: of two calls that differ only in one of these, all inputs
\* in their documented ranges, the call with the larger value returns an
\* annual cost that is not smaller.
C7_Monotonia ==
    ( /\ Len(frames) = 2
      /\ Done(frames[1]) /\ Done(frames[2])
      /\ \E c \in Crescentes : MaiorEm(c, frames[1].args, frames[2].args) )
    => /\ Returned(frames[1]) /\ Returned(frames[2])
       /\ Le(frames[1].ret.custo_anual, frames[2].ret.custo_anual)

\* C7 witness: both calls have returned, the second with more hours per day
\* and a strictly larger annual cost.
C7_Witness ==
    /\ Len(frames) = 2
    /\ Done(frames[1]) /\ Done(frames[2])
    /\ MaiorEm("horas_dia", frames[1].args, frames[2].args)
    /\ Lt(frames[1].ret.custo_anual, frames[2].ret.custo_anual)

----------------------------------------------------------------------------
\* Spec: NThreads invocations of the three functions run concurrently, their
\* statements interleaved in every order, against the one FLUIDOS table.

NThreads == 2

ArgsPerda ==
    [vazao_m3h |-> Lit(50, 0), diametro_mm |-> Lit(100, 0),
     comprimento_m |-> Lit(100, 0), rugosidade_mm |-> Lit(15, -2),
     k_total |-> Lit(5, 0), fluido_selecionado |-> "Agua a 20C"]

ArgsAnalise ==
    [vazao_m3h |-> Lit(50, 0), h_man |-> Lit(30, 0),
     eficiencia_bomba |-> Lit(7, -1), eficiencia_motor |-> Lit(9, -1),
     horas_dia |-> Lit(8, 0), custo_kwh |-> Lit(75, -2),
     fluido_selecionado |-> "Agua a 20C"]

Chamadas ==
    {PerdaCargaFrame(ArgsPerda),
     PerdaCargaFrame([ArgsPerda EXCEPT !.fluido_selecionado = "Desconhecido"]),
     AnaliseFrame(ArgsAnalise),
     SugestoesFrame(ArgsQuatro)}

Init ==
    /\ FLUIDOS = TabelaFluidos
    /\ frames \in [1..NThreads -> Chamadas]
    /\ app = AppIdle

Next == PCStep \/ AEStep \/ GSStep

Spec == Init /\ [][Next]_vars

\* The same call run alone, with the same arguments.
Sozinha(f) ==
    CASE f.fn = "calcular_perda_carga" -> calcular_perda_carga(f.args, TabelaFluidos)
      [] f.fn = "calcular_analise_energetica" ->
             calcular_analise_energetica(f.args, TabelaFluidos)
      [] f.fn = "gerar_sugestoes" -> gerar_sugestoes(f.args)

\* C9: no core operation writes FLUIDOS or any state shared between calls:
\* after any interleaving of concurrent invocations FLUIDOS is as the module
\* defined it, and every finished invocation has the outcome and the result
\* of the same call run alone.
C9_SemEstadoCompartilhado ==
    /\ FLUIDOS = TabelaFluidos
    /\ \A t \in DOMAIN frames :
          Done(frames[t]) =>
              /\ frames[t].outcome = Sozinha(frames[t]).outcome
              /\ Returned(frames[t]) => frames[t].ret = Sozinha(frames[t]).ret

\* C9 witness: calcular_perda_carga and calcular_analise_energetica, run
\* concurrently on the same fluid, have both returned.
C9_Witness ==
    /\ frames[1].fn = "calcular_perda_carga" /\ Returned(frames[1])
    /\ frames[2].fn = "calcular_analise_energetica" /\ Returned(frames[2])
    /\ frames[1].args.fluido_selecionado = frames[2].args.fluido_selecionado

----------------------------------------------------------------------------
\* SpecApp: one run of the top-level script (one request): the sidebar
\* widgets deliver the inputs, then the script calls the three functions,
\* each call running statement by statement before the script goes on.

\* What the widgets can deliver (lines 143-167), by head mode.
EntradasComuns ==
    [fluido_selecionado : {"Agua a 20C", "Glicerina a 20C"},
     vazao          : {Lit(1, -1), Lit(50, 0)},
     rend_bomba     : {Lit(10, 0), Lit(70, 0)},
     rend_motor     : {Lit(50, 0), Lit(90, 0)},
     horas_por_dia  : {Lit(8, 0)},
     tarifa_energia : {Lit(75, -2)}]

EntradasManual ==
    [tipo_calculo_h : {"Informar manualmente"},
     h_man_total    : {One, Lit(30, 0)}]

EntradasTubulacao ==
    [tipo_calculo_h : {"Calcular a partir da tubulacao"},
     h_geometrica   : {Zero, Lit(15, 0)},
     comp_tub       : {Lit(100, 0)},
     diam_tub       : {Lit(100, 0)},
     rug_tub        : {Lit(15, -2), Lit(370, 0)},
     k_total_acessorios : {Lit(5, 0)}]

\* range(1, 25), line 196
HorasRange == 1..24

InitApp ==
    /\ FLUIDOS = TabelaFluidos
    /\ frames = <<>>
    /\ \E c \in EntradasComuns, h \in EntradasManual \cup EntradasTubulacao :
          app = [pc |-> "sidebar", in |-> c @@ h, v |-> <<>>, log |-> <<>>]

Tubulacao == app.in.tipo_calculo_h = "Calcular a partir da tubulacao"

\* The script binds its variables, and moves on to the statement pc.
AppBind(bound, pc) == [app EXCEPT !.v = bound @@ @, !.pc = pc]

\* The script calls a function: a new frame, and a "call" event in the log.
Call(f, pc) ==
    /\ frames' = <<f>>
    /\ app' = [app EXCEPT !.pc = pc,
                          !.log = Append(@, [ev |-> "call", fn |-> f.fn, args |-> f.args])]
    /\ UNCHANGED FLUIDOS

\* The call has returned: its frame is gone, the script binds the result.
Receive(pc, bound, next) ==
    /\ app.pc = pc
    /\ Len(frames) = 1 /\ Done(frames[1]) /\ Returned(frames[1])
    /\ frames' = <<>>
    /\ app' = [AppBind(bound, next) EXCEPT
                  !.log = Append(@, [ev |-> "return", fn |-> frames[1].fn,
                                     ret |-> frames[1].ret])]
    /\ UNCHANGED FLUIDOS

\* lines 150-152: h_man_total = 0, or the value typed in the manual mode.
AppSidebar ==
    /\ app.pc = "sidebar"
    /\ app' = AppBind([h_man_total |-> IF Tubulacao THEN Zero ELSE app.in.h_man_total],
                      "altura")
    /\ UNCHANGED <<FLUIDOS, frames>>

\* lines 176-177: the compute-from-pipe mode calls calcular_perda_carga.
AppChamaPerda ==
    /\ app.pc = "altura" /\ Tubulacao
    /\ Call(PerdaCargaFrame(
              [vazao_m3h |-> app.in.vazao, diametro_mm |-> app.in.diam_tub,
               comprimento_m |-> app.in.comp_tub, rugosidade_mm |-> app.in.rug_tub,
               k_total |-> app.in.k_total_acessorios,
               fluido_selecionado |-> app.in.fluido_selecionado]), "perda")

\* Variant of AlturaTotal: the geometric head is left out.
AlturaSemGeometrica(h_geometrica, pc_p, pc_l) == Add(pc_p, pc_l)

\* line 178: h_geometrica + pc_p + pc_l
AlturaTotal(h_geometrica, pc_p, pc_l) == Add(Add(h_geometrica, pc_p), pc_l)

\* lines 177-178
AppRecebePerda ==
    Receive("perda",
            [pc_p |-> frames[1].ret[1], pc_l |-> frames[1].ret[2],
             h_man_total |-> AlturaTotal(app.in.h_geometrica,
                                         frames[1].ret[1], frames[1].ret[2])],
            "analise")

\* line 176: the manual mode skips the head-loss calculation.
AppSemPerda ==
    /\ app.pc = "altura" /\ ~Tubulacao
    /\ app' = [app EXCEPT !.pc = "analise"]
    /\ UNCHANGED <<FLUIDOS, frames>>

\* The arguments of lines 187 and 197, for horas hours a day.
ArgsDaAnalise(horas) ==
    [vazao_m3h |-> app.in.vazao, h_man |-> app.v.h_man_total,
     eficiencia_bomba |-> Div(app.in.rend_bomba, Lit(100, 0)),
     eficiencia_motor |-> Div(app.in.rend_motor, Lit(100, 0)),
     horas_dia |-> horas, custo_kwh |-> app.in.tarifa_energia,
     fluido_selecionado |-> app.in.fluido_selecionado]

\* line 187
AppChamaAnalise ==
    /\ app.pc = "analise"
    /\ Call(AnaliseFrame(ArgsDaAnalise(app.in.horas_por_dia)), "resultados")

AppRecebeAnalise ==
    Receive("resultados", [resultados |-> frames[1].ret, custos_range |-> <<>>],
            "grafico")

\* lines 196-197: one call for every h of horas_range.
AppChamaGrafico ==
    /\ app.pc = "grafico"
    /\ Len(app.v.custos_range) + 1 \in HorasRange
    /\ Call(AnaliseFrame(ArgsDaAnalise(Lit(Len(app.v.custos_range) + 1, 0))), "custos")

AppRecebeGrafico ==
    Receive("custos",
            [custos_range |-> Append(app.v.custos_range, frames[1].ret.custo_anual)],
            "grafico")

\* line 203
AppChamaSugestoes ==
    /\ app.pc = "grafico"
    /\ Len(app.v.custos_range) + 1 \notin HorasRange
    /\ Call(SugestoesFrame(
              [eficiencia_bomba |-> Div(app.in.rend_bomba, Lit(100, 0)),
               eficiencia_motor |-> Div(app.in.rend_motor, Lit(100, 0)),
               custo_anual |-> app.v.resultados.custo_anual]), "sugestoes")

\* lines 203-205; the report (lines 207-236) adds no call.
AppRecebeSugestoes ==
    Receive("sugestoes", [sugestoes |-> frames[1].ret], "relatorio")

\* An exception of a call is not caught: it ends the run of the script.
AppExcecao ==
    /\ Len(frames) = 1 /\ Done(frames[1]) /\ ~Returned(frames[1])
    /\ frames' = <<>>
    /\ app' = [app EXCEPT !.pc = "excecao",
                          !.log = Append(@, [ev |-> "raise", fn |-> frames[1].fn,
                                             exc |-> frames[1].outcome])]
    /\ UNCHANGED FLUIDOS

AppStep ==
    \/ AppSidebar \/ AppChamaPerda \/ AppRecebePerda \/ AppSemPerda
    \/ AppChamaAnalise \/ AppRecebeAnalise \/ AppChamaGrafico \/ AppRecebeGrafico
    \/ AppChamaSugestoes \/ AppRecebeSugestoes \/ AppExcecao

NextApp == AppStep \/ PCStep \/ AEStep \/ GSStep

SpecApp == InitApp /\ [][NextApp]_vars

\* The events of the log that call fn, by position.
CallsOf(fn) == {i \in DOMAIN app.log : app.log[i].ev = "call" /\ app.log[i].fn = fn}

ReturnsOf(fn) == {i \in DOMAIN app.log : app.log[i].ev = "return" /\ app.log[i].fn = fn}

\* C10: in the compute-from-pipe mode calcular_perda_carga has returned
\* before calcular_analise_energetica is called, and the head passed to every
\* call of calcular_analise_energetica (the result's and the chart's) is
\* geometric head + principal loss + localized loss of this request; the
\* annual cost passed to gerar_sugestoes is the one computed from that head.
\* In the manual mode calcular_perda_carga is not called and the head passed
\* is the value the user gave.
C10_AlturaAntesDaAnalise ==
    /\ \A i \in CallsOf("calcular_analise_energetica") :
          IF Tubulacao
          THEN \E j \in ReturnsOf("calcular_perda_carga") :
                  /\ j < i
                  /\ app.log[i].args.h_man =
                        Add(Add(app.in.h_geometrica, app.log[j].ret[1]), app.log[j].ret[2])
          ELSE app.log[i].args.h_man = app.in.h_man_total
    /\ Tubulacao \/ CallsOf("calcular_perda_carga") = {}
    /\ Tubulacao => Cardinality(CallsOf("calcular_perda_carga")) <= 1
    /\ \A i \in CallsOf("gerar_sugestoes") :
          \E j \in ReturnsOf("calcular_analise_energetica") :
              /\ j < i
              /\ \A k \in ReturnsOf("calcular_analise_energetica") : j <= k
              /\ app.log[j - 1].args.h_man = app.v.h_man_total
              /\ app.log[i].args.custo_anual = app.log[j].ret.custo_anual

\* C10 witness: a request in the compute-from-pipe mode with a geometric head
\* and losses that are not zero has made its 25 calls of
\* calcular_analise_energetica and its call of gerar_sugestoes.
C10_Witness ==
    /\ app.pc = "relatorio"
    /\ Tubulacao
    /\ ~IsZero(app.in.h_geometrica)
    /\ ~IsZero(app.v.pc_p) /\ ~IsZero(app.v.pc_l)
    /\ Cardinality(CallsOf("calcular_analise_energetica")) = 25
    /\ Cardinality(CallsOf("gerar_sugestoes")) = 1

====
